---- MODULE Spec2Model ----
(***************************************************************************)
(* A model of the JWT package: the base64url codec, the HMAC / RSA / none  *)
(* signers, Encode, DecodeClaims and DecodeHeader.  Byte slices are        *)
(* sequences of byte values (ASCII codes where the bytes are text), so     *)
(* base64 and JSON are computed on bytes as the code computes them.        *)
(***************************************************************************)
EXTENDS Integers, Sequences, FiniteSets, TLC

VARIABLES
    signer,   \* the Signer that Encode is called with
    verifier, \* the Verifier that DecodeClaims is called with
    now,      \* time.Now().Unix()
    claims,   \* the claims value handed to Encode
    token,    \* the token: as Encode returned it, or as an attacker altered it
    tamper,   \* how the token was altered since Encode ("none": it was not)
    out,      \* the caller's claims struct that DecodeClaims is given
    outPre,   \* out as it was when DecodeClaims was called
    err,      \* the error the last call returned
    run,      \* the stages the last DecodeClaims ran and its calls of Verify
    op,       \* the last operation
    bin,      \* base64 codec: the byte slice handed to encode / fixPadding
    b64,      \* base64 codec: the result of encode(bin)
    bpad,     \* base64 codec: the result of fixPadding
    bout,     \* base64 codec: the result of enc.Decode(fixPadding(b64))
    bop,      \* base64 codec: the last operation applied
    sSigner,  \* signing: the signer that Sign is called on
    sVerifier, \* signing: the verifier that Verify is called on
    sData,    \* signing: the data handed to Sign
    sSig,     \* signing: the signature Sign returned
    sErr,     \* signing: the error Sign returned
    vData,    \* signing: the data handed to Verify
    vSig,     \* signing: the signature handed to Verify
    vErr,     \* signing: the error Verify returned
    sop,      \* signing: the last operation
    hdrA,     \* DecodeHeader: one call, [token, header, err, done]
    hdrB,     \* DecodeHeader: another call, on a token of its own
    kMem,     \* key memory: the bytes of the backing array at each address
    kSigner,  \* key memory: the hmacSigner, its key a reference into kMem
    kAtNew,   \* key memory: the signer and the key bytes as the constructor left them
    kRes,     \* key memory: the last call on the signer and its result
    kop,      \* key memory: the last operation
    eSigner,  \* Encode alone: the signer
    eClaims,  \* Encode alone: the claims
    eRes,     \* Encode alone: what Encode returned, [token, err]
    eop       \* Encode alone: the last operation

jwtVars == <<signer, verifier, now, claims, token, tamper, out, outPre, err, run, op>>
b64Vars == <<bin, b64, bpad, bout, bop>>
signVars == <<sSigner, sVerifier, sData, sSig, sErr, vData, vSig, vErr, sop>>
hdrVars == <<hdrA, hdrB>>
keyVars == <<kMem, kSigner, kAtNew, kRes, kop>>
encVars == <<eSigner, eClaims, eRes, eop>>
otherVars == <<hdrVars, keyVars, encVars>>
vars == <<jwtVars, b64Vars, signVars, otherVars>>

(***************************************************************************)
(* Bounds of the model.                                                    *)
(***************************************************************************)
\* The longest byte slice handed to the base64 codec.
MaxLen == 4
\* The clock when the model starts, and the last time it reaches.
Now0 == 9
MaxNow == 11
\* The longest data handed to Sign.
MaxData == 2

(***************************************************************************)
(* Bytes and text.                                                         *)
(***************************************************************************)
\* '=' : the base64 padding character.
PadChar == 61
\* '.' : the separator of the token's segments.
DotChar == 46

\* The byte values the codec is exercised on: they produce sextets in every
\* range of the alphabet (A-Z, a-z, 0-9, '-' and '_').
ByteSamples == {0, 65, 105, 251, 255}

\* All sequences over S of length at most n.
RECURSIVE SeqsUpTo(_, _)
SeqsUpTo(S, n) ==
    IF n = 0 THEN {<<>>}
    ELSE LET shorter == SeqsUpTo(S, n - 1)
         IN  shorter \cup {Append(s, x) : s \in {t \in shorter : Len(t) = n - 1}, x \in S}

(***************************************************************************)
(* base64.URLEncoding (var enc) and the helpers encode and fixPadding.     *)
(***************************************************************************)
\* The URL-safe alphabet: the character of a 6-bit value.
B64Char(v) ==
    IF v < 26 THEN 65 + v
    ELSE IF v < 52 THEN 97 + (v - 26)
    ELSE IF v < 62 THEN 48 + (v - 52)
    ELSE IF v = 62 THEN 45
    ELSE 95

\* The decode map: the 6-bit value of a character, -1 when outside the alphabet.
B64Val(c) ==
    IF c >= 65 /\ c <= 90 THEN c - 65
    ELSE IF c >= 97 /\ c <= 122 THEN c - 97 + 26
    ELSE IF c >= 48 /\ c <= 57 THEN c - 48 + 52
    ELSE IF c = 45 THEN 62
    ELSE IF c = 95 THEN 63
    ELSE -1

IsB64Char(c) == B64Val(c) >= 0

\* enc.Encode: the padded encoding, three bytes to four characters.
RECURSIVE EncEncode(_)
EncEncode(b) ==
    IF Len(b) = 0 THEN <<>>
    ELSE IF Len(b) = 1 THEN
        <<B64Char(b[1] \div 4), B64Char((b[1] % 4) * 16), PadChar, PadChar>>
    ELSE IF Len(b) = 2 THEN
        <<B64Char(b[1] \div 4), B64Char((b[1] % 4) * 16 + (b[2] \div 16)),
          B64Char((b[2] % 16) * 4), PadChar>>
    ELSE
        <<B64Char(b[1] \div 4), B64Char((b[1] % 4) * 16 + (b[2] \div 16)),
          B64Char((b[2] % 16) * 4 + (b[3] \div 64)), B64Char(b[3] % 64)>>
        \o EncEncode(SubSeq(b, 4, Len(b)))

\* bytes.TrimRight(b, "="): drop every trailing '='.
RECURSIVE TrimRightPad(_)
TrimRightPad(s) ==
    IF Len(s) > 0 /\ s[Len(s)] = PadChar
    THEN TrimRightPad(SubSeq(s, 1, Len(s) - 1))
    ELSE s

\* encode: base64url without the padding.
encode(b) == TrimRightPad(EncEncode(b))

\* fixPadding as a bug would write it: pads every input, also one whose
\* length is already a multiple of four.
fixPadding_always(b) ==
    b \o [i \in 1..(4 - (Len(b) % 4)) |-> PadChar]

\* fixPadding: append '=' until the length is a multiple of four.
fixPadding(b) ==
    IF Len(b) % 4 > 0
    THEN b \o [i \in 1..(4 - (Len(b) % 4)) |-> PadChar]
    ELSE b

\* The decoder skips '\r' and '\n' wherever they stand.
StripNewlines(s) == SelectSeq(s, LAMBDA c : c # 10 /\ c # 13)

\* The index of the first character of q outside the alphabet, Len(q) + 1
\* when there is none.
FirstBad(q) ==
    IF \A k \in 1..Len(q) : IsB64Char(q[k]) THEN Len(q) + 1
    ELSE CHOOSE k \in 1..Len(q) :
            ~IsB64Char(q[k]) /\ \A m \in 1..(k - 1) : IsB64Char(q[m])

\* The bytes of a quantum's sextets.
QuantumByte1(q) == B64Val(q[1]) * 4 + (B64Val(q[2]) \div 16)
QuantumByte2(q) == (B64Val(q[2]) % 16) * 16 + (B64Val(q[3]) \div 4)
QuantumByte3(q) == (B64Val(q[3]) % 4) * 64 + B64Val(q[4])

BadQuantum == [err |-> TRUE, bytes |-> <<>>, end |-> TRUE]

\* One quantum of enc.Decode over newline-free input: q is the (up to four)
\* characters of the quantum, rest what follows it, j the index of the first
\* character of q outside the alphabet.  The result is [err, bytes, end]:
\* end says that padding ended the input.
DecodeQuantumAt(q, rest, j) ==
    IF j = 5 THEN
        [err |-> FALSE, end |-> FALSE,
         bytes |-> <<QuantumByte1(q), QuantumByte2(q), QuantumByte3(q)>>]
    \* the input ends inside a quantum: padding is required
    ELSE IF j > Len(q) THEN BadQuantum
    \* a character that is neither of the alphabet nor '='
    ELSE IF q[j] # PadChar THEN BadQuantum
    \* incorrect padding
    ELSE IF j <= 2 THEN BadQuantum
    \* "==" is expected
    ELSE IF j = 3 /\ (Len(q) < 4 \/ q[4] # PadChar) THEN BadQuantum
    \* trailing garbage after the padding
    ELSE IF Len(rest) > 0 THEN BadQuantum
    ELSE IF j = 3 THEN [err |-> FALSE, end |-> TRUE, bytes |-> <<QuantumByte1(q)>>]
    ELSE [err |-> FALSE, end |-> TRUE, bytes |-> <<QuantumByte1(q), QuantumByte2(q)>>]

DecodeQuantum(q, rest) == DecodeQuantumAt(q, rest, FirstBad(q))

\* The first quantum of s, and what follows it.
FirstQuantum(s) == SubSeq(s, 1, IF Len(s) < 4 THEN Len(s) ELSE 4)
AfterQuantum(s) == SubSeq(s, 5, Len(s))

\* The result r of a quantum followed by the result t of the rest.
DecodeJoin(r, t) ==
    IF r.err THEN [err |-> TRUE, bytes |-> <<>>]
    ELSE IF r.end THEN [err |-> FALSE, bytes |-> r.bytes]
    ELSE IF t.err THEN [err |-> TRUE, bytes |-> <<>>]
    ELSE [err |-> FALSE, bytes |-> r.bytes \o t.bytes]

RECURSIVE DecodeQuanta(_)
DecodeQuanta(s) ==
    IF Len(s) = 0 THEN [err |-> FALSE, bytes |-> <<>>]
    ELSE DecodeJoin(DecodeQuantum(FirstQuantum(s), AfterQuantum(s)),
                    DecodeQuanta(AfterQuantum(s)))

\* enc.Decode / enc.DecodeString: [err, bytes].
EncDecode(s) == DecodeQuanta(StripNewlines(s))

(***************************************************************************)
(* encoding/json, as far as the package uses it: flat objects whose values *)
(* are strings without escapes or integers.  Every document the model      *)
(* hands to Unmarshal is either of this form or not JSON at all.           *)
(***************************************************************************)
QuoteChar == 34
MinusChar == 45
CommaChar == 44
ColonChar == 58
LBraceChar == 123
RBraceChar == 125
BackslashChar == 92

IsDigit(c) == c >= 48 /\ c <= 57

\* The decimal digits of a natural number.
RECURSIVE Digits(_)
Digits(n) ==
    IF n < 10 THEN <<48 + n>> ELSE Digits(n \div 10) \o <<48 + (n % 10)>>

\* json.Marshal of an integer.
MarshalInt(n) == IF n < 0 THEN <<MinusChar>> \o Digits(0 - n) ELSE Digits(n)

\* json.Marshal of a string (the model's strings need no escaping).
MarshalString(s) == <<QuoteChar>> \o s \o <<QuoteChar>>

\* The index of the quote closing a string whose body starts at j; 0 when
\* the string is not closed or holds a control character or an escape.
RECURSIVE StringEnd(_, _)
StringEnd(b, j) ==
    IF j > Len(b) THEN 0
    ELSE IF b[j] = QuoteChar THEN j
    ELSE IF b[j] < 32 \/ b[j] = BackslashChar THEN 0
    ELSE StringEnd(b, j + 1)

\* The index after the run of digits starting at j.
RECURSIVE DigitsEnd(_, _)
DigitsEnd(b, j) ==
    IF j <= Len(b) /\ IsDigit(b[j]) THEN DigitsEnd(b, j + 1) ELSE j

RECURSIVE DigitsValue(_, _, _)
DigitsValue(b, j, e) ==
    IF j >= e THEN 0 ELSE DigitsValue(b, j, e - 1) * 10 + (b[e - 1] - 48)

BadValue == [err |-> TRUE, kind |-> "none", val |-> 0, next |-> 0]

\* The string whose opening quote is at i and whose closing quote is at e.
StringValue(b, i, e) ==
    IF e = 0 THEN BadValue
    ELSE [err |-> FALSE, kind |-> "string", val |-> SubSeq(b, i + 1, e - 1), next |-> e + 1]

\* The number whose digits are b[st..e-1], with the sign sgn.
NumberValue(b, st, e, sgn) ==
    \* no digit, or a leading zero
    IF e = st \/ (b[st] = 48 /\ e > st + 1) THEN BadValue
    ELSE [err |-> FALSE, kind |-> "number", val |-> sgn * DigitsValue(b, st, e), next |-> e]

\* A value at index i: [err, kind, val, next].
ScanValue(b, i) ==
    IF i > Len(b) THEN BadValue
    ELSE IF b[i] = QuoteChar THEN StringValue(b, i, StringEnd(b, i + 1))
    ELSE IF b[i] = MinusChar THEN NumberValue(b, i + 1, DigitsEnd(b, i + 1), -1)
    ELSE IF IsDigit(b[i]) THEN NumberValue(b, i, DigitsEnd(b, i), 1)
    ELSE BadValue

BadObject == [err |-> TRUE, members |-> <<>>]

\* The members of an object from index i on: "key":value , ... }
RECURSIVE ScanMembers(_, _, _)

\* After the member's value v: a comma and more members, or the brace that
\* ends the document.
AfterValue(b, k, v, acc) ==
    IF v.err \/ v.next > Len(b) THEN BadObject
    ELSE IF b[v.next] = CommaChar
        THEN ScanMembers(b, v.next + 1,
                         Append(acc, [key |-> k.val, kind |-> v.kind, val |-> v.val]))
    ELSE IF b[v.next] = RBraceChar /\ v.next = Len(b)
        THEN [err |-> FALSE,
              members |-> Append(acc, [key |-> k.val, kind |-> v.kind, val |-> v.val])]
    ELSE BadObject

\* After the member's key k: a colon and the value.
AfterKey(b, k, acc) ==
    IF k.err \/ k.kind # "string" \/ k.next > Len(b) THEN BadObject
    ELSE IF b[k.next] # ColonChar THEN BadObject
    ELSE AfterValue(b, k, ScanValue(b, k.next + 1), acc)

ScanMembers(b, i, acc) == AfterKey(b, ScanValue(b, i), acc)

\* The syntax check and scan of a document: [err, members].
ScanObject(b) ==
    IF Len(b) < 2 \/ b[1] # LBraceChar THEN BadObject
    ELSE IF b[2] = RBraceChar THEN [err |-> Len(b) # 2, members |-> <<>>]
    ELSE ScanMembers(b, 2, <<>>)

\* The errors of encoding/json.
JSONSyntaxError == [id |-> "json.SyntaxError", text |-> <<"invalid character">>]
JSONTypeError == [id |-> "json.UnmarshalTypeError", text |-> <<"cannot unmarshal">>]
Nil == [id |-> "nil", text |-> <<>>]

\* The fields of the schema that member m names.
FieldsOf(m, schema) == {f \in DOMAIN schema : schema[f].key = m.key}

\* Member m decoded into field f: set when the kinds agree; when they do
\* not, the value stays and the first error is kept.
SetField(m, f, r, schema) ==
    IF schema[f].kind = m.kind THEN [err |-> r.err, val |-> [r.val EXCEPT ![f] = m.val]]
    ELSE [err |-> IF r.err = Nil THEN JSONTypeError ELSE r.err, val |-> r.val]

\* Decoding one member; a key that names no field is skipped.
FillMember(m, hits, r, schema) ==
    IF hits = {} THEN r ELSE SetField(m, CHOOSE f \in hits : TRUE, r, schema)

\* Decoding the scanned members into a struct, one after the other: r is
\* [err, val] so far.
RECURSIVE FillStruct(_, _, _, _)
FillStruct(ms, i, r, schema) ==
    IF i > Len(ms) THEN r
    ELSE FillStruct(ms, i + 1, FillMember(ms[i], FieldsOf(ms[i], schema), r, schema), schema)

\* The scanned document p decoded into the target.
UnmarshalScanned(p, target, schema) ==
    IF p.err THEN [err |-> JSONSyntaxError, val |-> target]
    ELSE FillStruct(p.members, 1, [err |-> Nil, val |-> target], schema)

\* json.Unmarshal(b, &target) for a struct target: [err, val].  A syntax
\* error leaves the target as it is.
Unmarshal(b, target, schema) == UnmarshalScanned(ScanObject(b), target, schema)

(***************************************************************************)
(* Errors.  An error is [id, text]: id stands for the identity of the      *)
(* error value (what == compares), text for its message.                   *)
(***************************************************************************)
Sentinel(msg) == [id |-> msg, text |-> <<msg>>]

ErrAlgorithmNotAvailable == Sentinel("algorithm not available")
ErrInvalidSignature == Sentinel("invalid signature")
ErrMalformedToken == Sentinel("malformed token")
ErrInvalidSigner == Sentinel("invalid signer")
ErrExpired == Sentinel("expired")
ErrNotReady == Sentinel("token not yet active")

\* fmt.Errorf(prefix + ": %s", cause): a new error value that holds the
\* text of its cause and not the cause itself.
Errorf(prefix, cause) == [id |-> "fmt.Errorf", text |-> <<prefix>> \o cause.text]

CorruptInputError == [id |-> "base64.CorruptInputError", text |-> <<"illegal base64 data">>]

(***************************************************************************)
(* Text constants of the package and of the model's inputs.                *)
(***************************************************************************)
HS256 == <<72, 83, 50, 53, 54>>
HS384 == <<72, 83, 51, 56, 52>>
HS512 == <<72, 83, 53, 49, 50>>
RS256 == <<82, 83, 50, 53, 54>>
RS384 == <<82, 83, 51, 56, 52>>
RS512 == <<82, 83, 53, 49, 50>>
\* "none"
AlgNone == <<110, 111, 110, 101>>
\* "JWT"
TypJWT == <<74, 87, 84>>
\* The JSON keys "typ", "alg", "kid", "exp", "nbf" and the claim "color".
KeyTyp == <<116, 121, 112>>
KeyAlg == <<97, 108, 103>>
KeyKid == <<107, 105, 100>>
KeyExp == <<101, 120, 112>>
KeyNbf == <<110, 98, 102>>
KeyColor == <<99, 111, 108, 111, 114>>
\* Key ids "k1", "k2" and the empty key id.
Kid1 == <<107, 49>>
Kid2 == <<107, 50>>
NoKid == <<>>
\* Claim values "red", "blue".
Red == <<114, 101, 100>>
Blue == <<98, 108, 117, 101>>

(***************************************************************************)
(* The cryptographic primitives, idealised: a digest, a MAC and a          *)
(* PKCS#1v1.5 signature are injective in everything they depend on, so     *)
(* two of them are equal exactly when hash, key and data are.  An RSA key  *)
(* pair is named by its modulus: the public key of private key <<n>> is    *)
(* <<n>>.                                                                  *)
(***************************************************************************)
SHA256 == 256
SHA384 == 384
SHA512 == 512

\* crypto.Hash.Available: the package links sha256 and sha512.
Available(h) == h \in {SHA256, SHA384, SHA512}

\* hash.New(); Write(data); Sum(nil)
HashSum(h, d) == <<h \div 8>> \o d

\* hmac.New(hash.New, key); Write(data); Sum(nil)
HmacSum(h, key, d) == <<h \div 8, Len(key)>> \o key \o d

\* rsa.SignPKCS1v15(rand.Reader, key, hash, hashed)
SignPKCS1v15(key, h, hashed) == <<h \div 8>> \o key \o hashed

\* rsa.VerifyPKCS1v15(pub, hash, hashed, sig) = nil
VerifyPKCS1v15(pub, h, hashed, sg) == sg = <<h \div 8>> \o pub \o hashed

\* &s.key.PublicKey
PublicKey(priv) == priv

\* A 512-bit RSA private key: too short for a SHA-384 or SHA-512 digest.
PrivSmall == <<3>>

\* The size of a key's modulus in bytes.
KeySize(key) == IF key = PrivSmall THEN 64 ELSE 256

ErrMessageTooLong == Sentinel("crypto/rsa: message too long for RSA key size")

\* The error of rsa.SignPKCS1v15: the digest, its 19-byte prefix and 11
\* bytes of padding must fit the modulus.
SignPKCS1v15Err(key, h) ==
    IF KeySize(key) < 19 + (h \div 8) + 11 THEN ErrMessageTooLong ELSE Nil

(***************************************************************************)
(* The signers and verifiers.                                              *)
(***************************************************************************)
\* HMAC256 / HMAC384 / HMAC512: the key is copied.
HMAC256(key, keyID) ==
    [kind |-> "hmacSigner", alg |-> HS256, keyID |-> keyID, key |-> key, hash |-> SHA256]
HMAC384(key, keyID) ==
    [kind |-> "hmacSigner", alg |-> HS384, keyID |-> keyID, key |-> key, hash |-> SHA384]
HMAC512(key, keyID) ==
    [kind |-> "hmacSigner", alg |-> HS512, keyID |-> keyID, key |-> key, hash |-> SHA512]

RSA256Signer(key, keyID) ==
    [kind |-> "rsaSigner", alg |-> RS256, keyID |-> keyID, key |-> key, hash |-> SHA256]
RSA384Signer(key, keyID) ==
    [kind |-> "rsaSigner", alg |-> RS384, keyID |-> keyID, key |-> key, hash |-> SHA384]
RSA512Signer(key, keyID) ==
    [kind |-> "rsaSigner", alg |-> RS512, keyID |-> keyID, key |-> key, hash |-> SHA512]

\* An rsaVerifier has no keyID field; the model's record holds the empty one.
RSA256Verifier(key) ==
    [kind |-> "rsaVerifier", alg |-> RS256, keyID |-> NoKid, key |-> key, hash |-> SHA256]
RSA384Verifier(key) ==
    [kind |-> "rsaVerifier", alg |-> RS384, keyID |-> NoKid, key |-> key, hash |-> SHA384]
RSA512Verifier(key) ==
    [kind |-> "rsaVerifier", alg |-> RS512, keyID |-> NoKid, key |-> key, hash |-> SHA512]

\* noneSigner{}: the test signer.
noneSigner ==
    [kind |-> "noneSigner", alg |-> AlgNone, keyID |-> NoKid, key |-> <<>>, hash |-> 0]

\* v.Algorithm()
Algorithm(v) == v.alg

\* _, ok := v.(namedKeyHolder): the types that have a KeyID method.
IsNamedKeyHolder(v) == v.kind \in {"hmacSigner", "rsaSigner"}

\* v.KeyID()
KeyID(v) == v.keyID

\* hmacSigner.Sign as a bug would write it: the data is not hashed in.
hmacSign_nodata(s, d) ==
    IF ~Available(s.hash) THEN [sig |-> <<>>, err |-> ErrAlgorithmNotAvailable]
    ELSE [sig |-> HmacSum(s.hash, s.key, <<>>), err |-> Nil]

\* hmacSigner.Sign: [sig, err].  hash.Hash.Write never returns an error.
hmacSign(s, d) ==
    IF ~Available(s.hash) THEN [sig |-> <<>>, err |-> ErrAlgorithmNotAvailable]
    ELSE [sig |-> HmacSum(s.hash, s.key, d), err |-> Nil]

\* hmacSigner.Verify
hmacVerify(s, sg, d) ==
    IF ~Available(s.hash) THEN ErrAlgorithmNotAvailable
    ELSE IF sg # HmacSum(s.hash, s.key, d) THEN ErrInvalidSignature
    ELSE Nil

\* rsaSigner.Sign
rsaSign(s, d) ==
    IF ~Available(s.hash) THEN [sig |-> <<>>, err |-> ErrAlgorithmNotAvailable]
    ELSE IF SignPKCS1v15Err(s.key, s.hash) # Nil
        THEN [sig |-> <<>>, err |-> SignPKCS1v15Err(s.key, s.hash)]
    ELSE [sig |-> SignPKCS1v15(s.key, s.hash, HashSum(s.hash, d)), err |-> Nil]

\* rsaSigner.Verify
rsaSignerVerify(s, sg, d) ==
    IF ~Available(s.hash) THEN ErrAlgorithmNotAvailable
    ELSE IF ~VerifyPKCS1v15(PublicKey(s.key), s.hash, HashSum(s.hash, d), sg)
        THEN ErrInvalidSignature
    ELSE Nil

\* rsaVerifier.Verify
rsaVerifierVerify(v, sg, d) ==
    IF ~Available(v.hash) THEN ErrAlgorithmNotAvailable
    ELSE IF ~VerifyPKCS1v15(v.key, v.hash, HashSum(v.hash, d), sg)
        THEN ErrInvalidSignature
    ELSE Nil

\* sig.Sign(data), dispatched on the signer's type.
Sign(s, d) ==
    IF s.kind = "hmacSigner" THEN hmacSign(s, d)
    ELSE IF s.kind = "rsaSigner" THEN rsaSign(s, d)
    ELSE [sig |-> <<>>, err |-> Nil]

\* v.Verify(signature, data), dispatched on the verifier's type.
Verify(v, sg, d) ==
    IF v.kind = "hmacSigner" THEN hmacVerify(v, sg, d)
    ELSE IF v.kind = "rsaSigner" THEN rsaSignerVerify(v, sg, d)
    ELSE IF v.kind = "rsaVerifier" THEN rsaVerifierVerify(v, sg, d)
    ELSE Nil

(***************************************************************************)
(* The structs that are marshalled and unmarshalled.  A schema maps a      *)
(* field to its JSON key and kind.                                         *)
(***************************************************************************)
\* DecodeClaims' header struct { Algorithm `json:"alg"`; KeyID `json:"kid"` }
HeaderSchema ==
    [Algorithm |-> [key |-> KeyAlg, kind |-> "string"],
     KeyID     |-> [key |-> KeyKid, kind |-> "string"]]
ZeroHeader == [Algorithm |-> <<>>, KeyID |-> <<>>]

\* DecodeClaims' lifetime struct { ExpirationTime `json:"exp"`; NotBefore `json:"nbf"` }
LifetimeSchema ==
    [ExpirationTime |-> [key |-> KeyExp, kind |-> "number"],
     NotBefore      |-> [key |-> KeyNbf, kind |-> "number"]]
ZeroLifetime == [ExpirationTime |-> 0, NotBefore |-> 0]

\* The caller's claims struct, as the tests and examples declare theirs:
\* { Color string `json:"color"`; Exp int64 `json:"exp"`; Nbf int64 `json:"nbf"` }
ClaimsSchema ==
    [color |-> [key |-> KeyColor, kind |-> "string"],
     exp   |-> [key |-> KeyExp, kind |-> "number"],
     nbf   |-> [key |-> KeyNbf, kind |-> "number"]]
ZeroClaims == [color |-> <<>>, exp |-> 0, nbf |-> 0]

\* One member, "key":value.
MarshalMember(key, kind, val) ==
    MarshalString(key) \o <<ColonChar>>
    \o (IF kind = "string" THEN MarshalString(val) ELSE MarshalInt(val))

\* json.Marshal of the header struct without omitempty on kid.
MarshalHeader_kidalways(h) ==
    <<LBraceChar>> \o MarshalMember(KeyTyp, "string", h.Type)
    \o <<CommaChar>> \o MarshalMember(KeyAlg, "string", h.Algorithm)
    \o <<CommaChar>> \o MarshalMember(KeyKid, "string", h.KeyID)
    \o <<RBraceChar>>

\* json.Marshal of Encode's header struct: kid is omitted when empty.
MarshalHeader(h) ==
    <<LBraceChar>> \o MarshalMember(KeyTyp, "string", h.Type)
    \o <<CommaChar>> \o MarshalMember(KeyAlg, "string", h.Algorithm)
    \o (IF h.KeyID = <<>> THEN <<>>
        ELSE <<CommaChar>> \o MarshalMember(KeyKid, "string", h.KeyID))
    \o <<RBraceChar>>

\* The error of json.Marshal for a value it has no encoding for.
UnsupportedTypeError ==
    [id |-> "json.UnsupportedTypeError", text |-> <<"json: unsupported type">>]

\* A claims struct with a field of a func type has no JSON encoding.
Unsupported(c) == "fn" \in DOMAIN c

\* json.Marshal of the caller's claims struct: [err, bytes].
MarshalClaims(c) ==
    IF Unsupported(c) THEN [err |-> UnsupportedTypeError, bytes |-> <<>>]
    ELSE
    [err |-> Nil,
     bytes |-> <<LBraceChar>> \o MarshalMember(KeyColor, "string", c.color)
               \o <<CommaChar>> \o MarshalMember(KeyExp, "number", c.exp)
               \o <<CommaChar>> \o MarshalMember(KeyNbf, "number", c.nbf)
               \o <<RBraceChar>>]

(***************************************************************************)
(* Encode.                                                                 *)
(***************************************************************************)
\* The header Encode builds for a signer.
EncodeHeader(sg) ==
    [Type |-> TypJWT,
     Algorithm |-> Algorithm(sg),
     KeyID |-> IF IsNamedKeyHolder(sg) THEN KeyID(sg) ELSE <<>>]

\* The end of Encode returning what was assembled when signing fails.
EncodeSigned_partial(data, sr) ==
    IF sr.err # Nil
    THEN [token |-> data, err |-> Errorf("cannot sign", sr.err), signed |-> data]
    ELSE [token |-> data \o <<DotChar>> \o encode(sr.sig), err |-> Nil, signed |-> data]

\* The end of Encode: sr is what sig.Sign(data) returned.
EncodeSigned(data, sr) ==
    IF sr.err # Nil
    THEN [token |-> <<>>, err |-> Errorf("cannot sign", sr.err), signed |-> data]
    ELSE [token |-> data \o <<DotChar>> \o encode(sr.sig), err |-> Nil, signed |-> data]

\* Encode from the encoded header on: cm is what json.Marshal(claims) returned.
EncodeContent(sg, header, cm) ==
    IF cm.err # Nil
    THEN [token |-> <<>>, err |-> Errorf("cannot encode claims", cm.err), signed |-> <<>>]
    ELSE EncodeSigned(header \o <<DotChar>> \o encode(cm.bytes),
                      Sign(sg, header \o <<DotChar>> \o encode(cm.bytes)))

\* Encode: [token, err, signed], signed being the data handed to sig.Sign.
\* json.Marshal of the header struct cannot fail.
Encode(sg, c) ==
    EncodeContent(sg, encode(MarshalHeader(EncodeHeader(sg))), MarshalClaims(c))

(***************************************************************************)
(* DecodeClaims.                                                           *)
(***************************************************************************)
\* The index of the first '.' of s, 0 when there is none.
FirstDot(s) ==
    IF \A i \in 1..Len(s) : s[i] # DotChar THEN 0
    ELSE CHOOSE i \in 1..Len(s) : s[i] = DotChar /\ \A m \in 1..(i - 1) : s[m] # DotChar

\* bytes.Split(token, "."): the segments between the dots.
RECURSIVE Split(_)
SplitAt(s, i) ==
    IF i = 0 THEN <<s>>
    ELSE <<SubSeq(s, 1, i - 1)>> \o Split(SubSeq(s, i + 1, Len(s)))
Split(s) == SplitAt(s, FirstDot(s))

\* The algorithm check left out.
AlgorithmMatch_unchecked(header, v) == TRUE

\* header.Algorithm != v.Algorithm() is the mismatch.
AlgorithmMatch(header, v) == header.Algorithm = Algorithm(v)

\* The key id check left out.
KeyIDMatch_unchecked(header, v) == TRUE

\* The key ids are compared when the verifier has a KeyID method and the
\* header's kid is not empty.
KeyIDMatch(header, v) ==
    IF IsNamedKeyHolder(v) /\ header.KeyID # <<>>
    THEN KeyID(v) = header.KeyID
    ELSE TRUE

\* The temporal check with <= and >= where the code has < and >.
TemporalCheck_inclusive(lifetime, nowUnix) ==
    IF lifetime.ExpirationTime # 0 /\ lifetime.ExpirationTime <= nowUnix THEN ErrExpired
    ELSE IF lifetime.NotBefore # 0 /\ lifetime.NotBefore >= nowUnix THEN ErrNotReady
    ELSE Nil

\* The check of exp and nbf against now.Unix().
TemporalCheck(lifetime, nowUnix) ==
    IF lifetime.ExpirationTime # 0 /\ lifetime.ExpirationTime < nowUnix THEN ErrExpired
    ELSE IF lifetime.NotBefore # 0 /\ lifetime.NotBefore > nowUnix THEN ErrNotReady
    ELSE Nil

\* The signing input cut one byte late: the dot before the signature is kept.
BeforeSign_withdot(tok, chunks) == SubSeq(tok, 1, Len(tok) - Len(chunks[3]))

\* The signing input not cut: the whole token, signature segment included.
BeforeSign_whole(tok, chunks) == tok

\* token[:len(token)-len(chunks[2])-1]
BeforeSign(tok, chunks) == SubSeq(tok, 1, Len(tok) - Len(chunks[3]) - 1)

\* The stages of DecodeClaims, in the order of the code.
Stages ==
    <<"Split", "HeaderDecode", "ClaimsDecode", "AlgorithmMatch", "KeyIDMatch",
      "SignatureDecode", "SignatureVerify", "TemporalCheck", "Accept">>
StagesTo(n) == SubSeq(Stages, 1, n)

\* What a call of DecodeClaims leaves: the error returned, the caller's
\* claims struct after the call, the stages run and the calls of v.Verify.
Ret(e, c, n, calls) ==
    [err |-> e, claims |-> c, stages |-> StagesTo(n), verified |-> calls]

\* DecodeClaims is a chain of steps; each is given what the steps before it
\* computed.  cl is the caller's claims struct as the call found it, filled
\* the struct after json.Unmarshal(b, &claims) wrote into it.

\* The temporal check: terr is its result.
DecodeTemporal(filled, terr, calls) ==
    IF terr # Nil THEN Ret(terr, filled, 8, calls)
    ELSE Ret(Nil, filled, 9, calls)

\* exp and nbf checked before the result of v.Verify is looked at.
DecodeVerified_temporalfirst(filled, lifetime, sg, data, verr, nowUnix) ==
    IF TemporalCheck(lifetime, nowUnix) # Nil
    THEN Ret(TemporalCheck(lifetime, nowUnix), filled, 8,
             <<[signature |-> sg, data |-> data]>>)
    ELSE IF verr # Nil THEN Ret(verr, filled, 7, <<[signature |-> sg, data |-> data]>>)
    ELSE Ret(Nil, filled, 9, <<[signature |-> sg, data |-> data]>>)

\* The result of v.Verify ignored.
DecodeVerified_unchecked(filled, lifetime, sg, data, verr, nowUnix) ==
    DecodeTemporal(filled, TemporalCheck(lifetime, nowUnix),
                   <<[signature |-> sg, data |-> data]>>)

\* v.Verify(b, beforeSign) returned verr.
DecodeVerified(filled, lifetime, sg, data, verr, nowUnix) ==
    IF verr # Nil THEN Ret(verr, filled, 7, <<[signature |-> sg, data |-> data]>>)
    ELSE DecodeTemporal(filled, TemporalCheck(lifetime, nowUnix),
                        <<[signature |-> sg, data |-> data]>>)

\* The signature segment was base64-decoded to sb.
DecodeSignature(tok, chunks, filled, lifetime, sb, v, nowUnix) ==
    IF sb.err THEN
        Ret(Errorf("cannot base64 decode signature", CorruptInputError), filled, 6, <<>>)
    ELSE DecodeVerified(filled, lifetime, sb.bytes, BeforeSign(tok, chunks),
                        Verify(v, sb.bytes, BeforeSign(tok, chunks)), nowUnix)

\* The checks of the algorithm and of the key id.
DecodeSigner(tok, chunks, header, filled, lifetime, v, nowUnix) ==
    IF ~AlgorithmMatch(header, v) THEN Ret(ErrInvalidSigner, filled, 4, <<>>)
    ELSE IF ~KeyIDMatch(header, v) THEN Ret(ErrInvalidSigner, filled, 5, <<>>)
    ELSE DecodeSignature(tok, chunks, filled, lifetime,
                         EncDecode(fixPadding(chunks[3])), v, nowUnix)

\* json.Unmarshal(b, &lifetime) returned lj.
DecodeLifetime(tok, chunks, header, filled, lj, v, nowUnix) ==
    IF lj.err # Nil THEN Ret(Errorf("cannot JSON decode claims", lj.err), filled, 3, <<>>)
    ELSE DecodeSigner(tok, chunks, header, filled, lj.val, v, nowUnix)

\* json.Unmarshal(b, &claims) returned cj: the caller's struct is now cj.val.
DecodeClaimsJSON(tok, chunks, header, b, cj, v, nowUnix) ==
    IF cj.err # Nil THEN Ret(Errorf("cannot JSON decode claims", cj.err), cj.val, 3, <<>>)
    ELSE DecodeLifetime(tok, chunks, header, cj.val,
                        Unmarshal(b, ZeroLifetime, LifetimeSchema), v, nowUnix)

\* The claims segment was base64-decoded to cb.
DecodeClaimsB64(tok, chunks, header, cb, v, nowUnix, cl) ==
    IF cb.err THEN
        Ret(Errorf("cannot base64 decode claims", CorruptInputError), cl, 3, <<>>)
    ELSE DecodeClaimsJSON(tok, chunks, header, cb.bytes,
                          Unmarshal(cb.bytes, cl, ClaimsSchema), v, nowUnix)

\* json.Unmarshal(b, &header) returned hj.
DecodeHeaderJSON(tok, chunks, hj, v, nowUnix, cl) ==
    IF hj.err # Nil THEN Ret(Errorf("cannot JSON decode header", hj.err), cl, 2, <<>>)
    ELSE DecodeClaimsB64(tok, chunks, hj.val, EncDecode(fixPadding(chunks[2])),
                         v, nowUnix, cl)

\* The header segment was base64-decoded to hb.
DecodeHeaderB64(tok, chunks, hb, v, nowUnix, cl) ==
    IF hb.err THEN
        Ret(Errorf("cannot base64 decode header", CorruptInputError), cl, 2, <<>>)
    ELSE DecodeHeaderJSON(tok, chunks, Unmarshal(hb.bytes, ZeroHeader, HeaderSchema),
                          v, nowUnix, cl)

\* The segment count checked with < 3 where the code has != 3.
DecodeChunks_atleast(tok, chunks, v, nowUnix, cl) ==
    IF Len(chunks) < 3 THEN Ret(ErrMalformedToken, cl, 1, <<>>)
    ELSE DecodeHeaderB64(tok, chunks, EncDecode(fixPadding(chunks[1])), v, nowUnix, cl)

\* The token was split into chunks.
DecodeChunks(tok, chunks, v, nowUnix, cl) ==
    IF Len(chunks) # 3 THEN Ret(ErrMalformedToken, cl, 1, <<>>)
    ELSE DecodeHeaderB64(tok, chunks, EncDecode(fixPadding(chunks[1])), v, nowUnix, cl)

\* DecodeClaims(token, v, &claims) at time nowUnix: tok is the token, cl the
\* caller's claims struct before the call.
DecodeClaims(tok, v, nowUnix, cl) == DecodeChunks(tok, Split(tok), v, nowUnix, cl)

(***************************************************************************)
(* DecodeHeader.                                                           *)
(***************************************************************************)
\* The header struct of the caller, as the tests declare theirs:
\* { Type `json:"typ"`; Algorithm `json:"alg"`; KeyID `json:"kid"` }
FullHeaderSchema ==
    [Type      |-> [key |-> KeyTyp, kind |-> "string"],
     Algorithm |-> [key |-> KeyAlg, kind |-> "string"],
     KeyID     |-> [key |-> KeyKid, kind |-> "string"]]
ZeroFullHeader == [Type |-> <<>>, Algorithm |-> <<>>, KeyID |-> <<>>]

\* The first segment taken to be the whole token: no split.
FirstSegment_whole(tok) == tok

\* bytes.SplitN(token, []byte{'.'}, 2)[0]
FirstSegment(tok) ==
    IF FirstDot(tok) = 0 THEN tok ELSE SubSeq(tok, 1, FirstDot(tok) - 1)

\* json.Unmarshal([]byte(jsonHeader), &header) returned uj: the caller's
\* struct is now uj.val.
HeaderUnmarshalled(uj) ==
    IF uj.err # Nil THEN [err |-> Errorf("invalid JSON", uj.err), header |-> uj.val]
    ELSE [err |-> Nil, header |-> uj.val]

\* enc.DecodeString(string(baseHeader)) returned db.
HeaderDecoded(db, target) ==
    IF db.err
    THEN [err |-> Errorf("invalid base64 encoding", CorruptInputError), header |-> target]
    ELSE HeaderUnmarshalled(Unmarshal(db.bytes, target, FullHeaderSchema))

\* DecodeHeader(token, &header): [err, header], header being the caller's
\* struct after the call and target the struct before it.
DecodeHeader(tok, target) ==
    HeaderDecoded(EncDecode(fixPadding(FirstSegment(tok))), target)

(***************************************************************************)
(* The inputs of the model.                                                *)
(***************************************************************************)
\* HMAC secrets "s" and "t"; RSA private keys.
Secret1 == <<115>>
Secret2 == <<116>>
Priv1 == <<1>>
Priv2 == <<2>>

\* The time the tokens' exp and nbf name, when they name one.
T == Now0 + 1

Signers ==
    {HMAC256(Secret1, Kid1), HMAC256(Secret1, NoKid), HMAC384(Secret1, Kid1),
     RSA256Signer(Priv1, Kid1), noneSigner}

Verifiers ==
    {HMAC256(Secret1, Kid1), HMAC256(Secret1, Kid2), HMAC256(Secret1, NoKid),
     HMAC256(Secret2, Kid1), HMAC384(Secret1, Kid1),
     RSA256Signer(Priv1, Kid1), RSA256Verifier(PublicKey(Priv1)),
     RSA256Verifier(PublicKey(Priv2)), RSA384Verifier(PublicKey(Priv1)), noneSigner}

ClaimsValues == {[color |-> Red, exp |-> e, nbf |-> n] : e \in {0, T}, n \in {0, T}}

\* "foo\n": base64 that is not JSON (the tests' "Zm9vCg").
NotJSON == <<102, 111, 111, 10>>
\* {"color":"blue","exp":"x"}: exp is no number.
ExpStringDoc ==
    <<LBraceChar>> \o MarshalMember(KeyColor, "string", Blue)
    \o <<CommaChar>> \o MarshalMember(KeyExp, "string", <<120>>) \o <<RBraceChar>>
\* The claims an attacker puts in place of the signed ones.
ForgedClaims == [color |-> Blue, exp |-> 0, nbf |-> 0]

\* The segments joined by dots.
RECURSIVE Join(_)
Join(chunks) ==
    IF Len(chunks) = 0 THEN <<>>
    ELSE IF Len(chunks) = 1 THEN chunks[1]
    ELSE chunks[1] \o <<DotChar>> \o Join(Tail(chunks))

\* Another character of the alphabet than c.
OtherChar(c) == IF c = 65 THEN 66 ELSE 65

TamperKinds ==
    {"empty", "onlyHeader", "dropSignature", "extraSegment", "flipSignature",
     "otherClaims", "algNone", "badHeaderB64", "badClaimsB64", "badSignatureB64",
     "headerNotJSON", "claimsNotJSON", "claimsExpString", "reorderHeader"}

\* The header of the segment h written again with alg before typ and no kid:
\* the same header to a JSON decoder, other bytes.
ReorderedHeader(h) ==
    <<LBraceChar>>
    \o MarshalMember(KeyAlg, "string",
                     Unmarshal(EncDecode(fixPadding(h)).bytes, ZeroHeader,
                               HeaderSchema).val.Algorithm)
    \o <<CommaChar>> \o MarshalMember(KeyTyp, "string", TypJWT) \o <<RBraceChar>>

\* What an attacker makes of a token whose three segments are c.
TamperChunks(kind, c) ==
    CASE kind = "empty" -> <<>>
      [] kind = "onlyHeader" -> c[1]
      [] kind = "dropSignature" -> Join(<<c[1], c[2]>>)
      [] kind = "extraSegment" -> Join(<<c[1], c[2], c[3], <<65, 65, 65, 65>> >>)
      [] kind = "flipSignature" ->
            Join(<<c[1], c[2], <<OtherChar(c[3][1])>> \o Tail(c[3])>>)
      [] kind = "otherClaims" ->
            Join(<<c[1], encode(MarshalClaims(ForgedClaims).bytes), c[3]>>)
      [] kind = "algNone" ->
            Join(<<encode(MarshalHeader(EncodeHeader(noneSigner))), c[2], <<>> >>)
      [] kind = "badHeaderB64" -> Join(<<<<33>> \o Tail(c[1]), c[2], c[3]>>)
      [] kind = "badClaimsB64" -> Join(<<c[1], <<33>> \o Tail(c[2]), c[3]>>)
      [] kind = "badSignatureB64" -> Join(<<c[1], c[2], Append(c[3], 33)>>)
      [] kind = "headerNotJSON" -> Join(<<encode(NotJSON), c[2], c[3]>>)
      [] kind = "claimsNotJSON" -> Join(<<c[1], encode(NotJSON), c[3]>>)
      [] kind = "claimsExpString" -> Join(<<c[1], encode(ExpStringDoc), c[3]>>)
      [] kind = "reorderHeader" -> Join(<<encode(ReorderedHeader(c[1])), c[2], c[3]>>)

TamperToken(kind, t) == TamperChunks(kind, Split(t))

(***************************************************************************)
(* The package in use: a token is encoded, possibly altered on its way,    *)
(* and decoded, while time passes.                                         *)
(***************************************************************************)
NoRun == [stages |-> <<>>, verified |-> <<>>]

JwtInit ==
    /\ signer \in Signers
    /\ verifier \in Verifiers
    /\ now = Now0
    /\ claims = ZeroClaims
    /\ token = <<>>
    /\ tamper = "none"
    /\ out = ZeroClaims
    /\ outPre = ZeroClaims
    /\ err = Nil
    /\ run = NoRun
    /\ op = "new"

\* The jwt variables where the other specifications leave them.
JwtIdle ==
    /\ signer = noneSigner
    /\ verifier = noneSigner
    /\ now = Now0
    /\ claims = ZeroClaims
    /\ token = <<>>
    /\ tamper = "none"
    /\ out = ZeroClaims
    /\ outPre = ZeroClaims
    /\ err = Nil
    /\ run = NoRun
    /\ op = "new"

\* The base64 variables where the other specifications leave them.
B64Idle ==
    /\ bin = <<>>
    /\ b64 = <<>>
    /\ bpad = <<>>
    /\ bout = [err |-> FALSE, bytes |-> <<>>]
    /\ bop = "new"

\* The signing variables where the other specifications leave them.
SignIdle ==
    /\ sSigner = noneSigner
    /\ sVerifier = noneSigner
    /\ sData = <<>>
    /\ sSig = <<>>
    /\ sErr = Nil
    /\ vData = <<>>
    /\ vSig = <<>>
    /\ vErr = Nil
    /\ sop = "new"

\* A call of DecodeHeader that was not made yet, on the token tok.
HeaderCall(tok) == [token |-> tok, header |-> ZeroFullHeader, err |-> Nil, done |-> FALSE]

\* The other variables where the specifications that do not use them leave
\* them.
HdrIdle == hdrA = HeaderCall(<<>>) /\ hdrB = HeaderCall(<<>>)
\* The addresses of the model's memory: the backing array of the caller's
\* key slice, and the one the constructor allocates.
Addrs == {"caller", "signer"}

NoCall == [call |-> "none", args |-> <<>>, res |-> Nil]

KeyIdle ==
    /\ kMem = [a \in Addrs |-> <<>>]
    /\ kSigner = noneSigner
    /\ kAtNew = [signer |-> noneSigner, key |-> <<>>]
    /\ kRes = NoCall
    /\ kop = "new"

EncIdle ==
    /\ eSigner = noneSigner
    /\ eClaims = ZeroClaims
    /\ eRes = [token |-> <<>>, err |-> Nil]
    /\ eop = "new"

OtherIdle == HdrIdle /\ KeyIdle /\ EncIdle

\* token, err := Encode(signer, claims)
DoEncode ==
    /\ op = "new"
    /\ \E c \in ClaimsValues : \E r \in {Encode(signer, c)} :
          /\ claims' = c
          /\ token' = r.token
          /\ err' = r.err
    /\ op' = "Encode"
    /\ UNCHANGED <<signer, verifier, now, tamper, out, outPre, run>>

\* The token is altered before it reaches the decoder.
DoTamper ==
    /\ op = "Encode"
    /\ err = Nil
    /\ \E k \in TamperKinds :
          /\ k = "flipSignature" => Len(Split(token)[3]) > 0
          /\ token' = TamperToken(k, token)
          /\ tamper' = k
    /\ op' = "Tamper"
    /\ UNCHANGED <<signer, verifier, now, claims, out, outPre, err, run>>

\* Time passes.
Tick ==
    /\ op \in {"Encode", "Tamper"}
    /\ now < MaxNow
    /\ now' = now + 1
    /\ UNCHANGED <<signer, verifier, claims, token, tamper, out, outPre, err, run, op>>

\* err := DecodeClaims(token, verifier, &out)
DoDecodeClaims ==
    /\ op \in {"Encode", "Tamper"}
    /\ \E r \in {DecodeClaims(token, verifier, now, out)} :
          /\ err' = r.err
          /\ out' = r.claims
          /\ run' = [stages |-> r.stages, verified |-> r.verified]
    /\ outPre' = out
    /\ op' = "DecodeClaims"
    /\ UNCHANGED <<signer, verifier, now, claims, token, tamper>>

Next ==
    \/ (DoEncode /\ UNCHANGED <<b64Vars, signVars, otherVars>>)
    \/ (DoTamper /\ UNCHANGED <<b64Vars, signVars, otherVars>>)
    \/ (Tick /\ UNCHANGED <<b64Vars, signVars, otherVars>>)
    \/ (DoDecodeClaims /\ UNCHANGED <<b64Vars, signVars, otherVars>>)

Init == JwtInit /\ B64Idle /\ SignIdle /\ OtherIdle

Spec == Init /\ [][Next]_vars

(***************************************************************************)
(* The base64 codec on its own: every byte slice up to MaxLen is encoded,  *)
(* padded again and decoded.                                               *)
(***************************************************************************)
NoBytes == <<>>

B64Init ==
    /\ bin \in SeqsUpTo(ByteSamples, MaxLen)
    /\ b64 = NoBytes
    /\ bpad = NoBytes
    /\ bout = [err |-> FALSE, bytes |-> NoBytes]
    /\ bop = "new"
    /\ JwtIdle
    /\ SignIdle
    /\ OtherIdle

B64Encode ==
    /\ bop = "new"
    /\ b64' = encode(bin)
    /\ bop' = "encode"
    /\ UNCHANGED <<bin, bpad, bout>>
    /\ UNCHANGED <<jwtVars, signVars, otherVars>>

\* fixPadding applied to an arbitrary slice: bin itself.
B64FixRaw ==
    /\ bop = "new"
    /\ bpad' = fixPadding(bin)
    /\ bop' = "fixPadding"
    /\ UNCHANGED <<bin, b64, bout>>
    /\ UNCHANGED <<jwtVars, signVars, otherVars>>

B64Decode ==
    /\ bop = "encode"
    /\ bpad' = fixPadding(b64)
    /\ bout' = EncDecode(fixPadding(b64))
    /\ bop' = "decode"
    /\ UNCHANGED <<bin, b64>>
    /\ UNCHANGED <<jwtVars, signVars, otherVars>>

B64Next == B64Encode \/ B64FixRaw \/ B64Decode

SpecB64 == B64Init /\ [][B64Next]_vars

\* C9: base64url round trip.  encode(B) holds only characters of the
\* base64url alphabet (so no '='); decoding fixPadding(encode(B)) gives
\* exactly B; fixPadding appends only '=' characters, as few as make the
\* length a multiple of four, and none to a slice whose length already is.
C9_Base64RoundTrip ==
    /\ bop \in {"encode", "decode"} =>
          \A i \in 1..Len(b64) : IsB64Char(b64[i]) /\ b64[i] # PadChar
    /\ bop = "decode" =>
          /\ ~bout.err
          /\ bout.bytes = bin
          /\ Len(bpad) % 4 = 0
          /\ Len(bpad) - Len(b64) < 4
          /\ SubSeq(bpad, 1, Len(b64)) = b64
          /\ \A i \in (Len(b64) + 1)..Len(bpad) : bpad[i] = PadChar
    /\ bop = "fixPadding" =>
          /\ Len(bpad) % 4 = 0
          /\ Len(bpad) - Len(bin) < 4
          /\ SubSeq(bpad, 1, Len(bin)) = bin
          /\ \A i \in (Len(bin) + 1)..Len(bpad) : bpad[i] = PadChar
          /\ (Len(bin) % 4 = 0 => bpad = bin)

\* A slice whose length is not a multiple of three was encoded, padded and
\* decoded back.
C9_Witness ==
    /\ bop = "decode"
    /\ Len(bin) = 2
    /\ Len(bpad) > Len(b64)
    /\ bout.bytes = bin

(***************************************************************************)
(* Signing on its own: every signer signs every data up to MaxData, the    *)
(* data or the signature is possibly altered, and every verifier verifies. *)
(***************************************************************************)
SignSigners ==
    {HMAC256(Secret1, Kid1), HMAC384(Secret1, Kid1), HMAC512(Secret1, Kid1),
     RSA256Signer(Priv1, Kid1), RSA384Signer(Priv1, Kid1), RSA512Signer(Priv1, Kid1)}

SignVerifiers ==
    SignSigners
    \cup {HMAC256(Secret2, Kid1), HMAC384(Secret2, Kid1), HMAC512(Secret2, Kid1)}
    \cup {RSA256Signer(Priv2, Kid1), RSA384Signer(Priv2, Kid1), RSA512Signer(Priv2, Kid1)}
    \cup {RSA256Verifier(PublicKey(k)) : k \in {Priv1, Priv2}}
    \cup {RSA384Verifier(PublicKey(k)) : k \in {Priv1, Priv2}}
    \cup {RSA512Verifier(PublicKey(k)) : k \in {Priv1, Priv2}}

SignData == SeqsUpTo({0, 65}, MaxData)

\* The signature with its first byte changed, its last byte dropped, a byte
\* appended, or nothing left of it.
TamperedSignatures(sg) ==
    {<<(Head(sg) + 1) % 256>> \o Tail(sg), SubSeq(sg, 1, Len(sg) - 1), Append(sg, 0), <<>>}

SignInit ==
    /\ sSigner \in SignSigners
    /\ sVerifier \in SignVerifiers
    /\ sData \in SignData
    /\ sSig = <<>>
    /\ sErr = Nil
    /\ vData = <<>>
    /\ vSig = <<>>
    /\ vErr = Nil
    /\ sop = "new"
    /\ JwtIdle
    /\ B64Idle
    /\ OtherIdle

\* sSig, sErr := sSigner.Sign(sData)
DoSign ==
    /\ sop = "new"
    /\ \E r \in {Sign(sSigner, sData)} :
          /\ sSig' = r.sig
          /\ sErr' = r.err
          /\ vSig' = r.sig
    /\ vData' = sData
    /\ sop' = "Sign"
    /\ UNCHANGED <<sSigner, sVerifier, sData, vErr>>
    /\ UNCHANGED <<jwtVars, b64Vars, otherVars>>

\* Other data than the signed data reaches the verifier.
TamperData ==
    /\ sop \in {"Sign", "TamperSignature"}
    /\ sErr = Nil
    /\ vData = sData
    /\ \E d \in SignData \ {sData} : vData' = d
    /\ sop' = "TamperData"
    /\ UNCHANGED <<sSigner, sVerifier, sData, sSig, sErr, vSig, vErr>>
    /\ UNCHANGED <<jwtVars, b64Vars, otherVars>>

\* Another signature than the one Sign returned reaches the verifier.
TamperSignature ==
    /\ sop \in {"Sign", "TamperData"}
    /\ sErr = Nil
    /\ vSig = sSig
    /\ \E g \in TamperedSignatures(sSig) : vSig' = g
    /\ sop' = "TamperSignature"
    /\ UNCHANGED <<sSigner, sVerifier, sData, sSig, sErr, vData, vErr>>
    /\ UNCHANGED <<jwtVars, b64Vars, otherVars>>

\* vErr := sVerifier.Verify(vSig, vData)
DoVerify ==
    /\ sop \in {"Sign", "TamperData", "TamperSignature"}
    /\ sErr = Nil
    /\ vErr' = Verify(sVerifier, vSig, vData)
    /\ sop' = "Verify"
    /\ UNCHANGED <<sSigner, sVerifier, sData, sSig, sErr, vData, vSig>>
    /\ UNCHANGED <<jwtVars, b64Vars, otherVars>>

SignNext == DoSign \/ TamperData \/ TamperSignature \/ DoVerify

SpecSign == SignInit /\ [][SignNext]_vars

(***************************************************************************)
(* What DecodeClaims reads in a token of three segments, step by step.     *)
(***************************************************************************)
\* enc.Decode(b, fixPadding(chunks[0]))
HeaderBytes(tok) == EncDecode(fixPadding(Split(tok)[1]))
\* json.Unmarshal(b, &header)
TokenHeader(tok) == Unmarshal(HeaderBytes(tok).bytes, ZeroHeader, HeaderSchema)
\* enc.Decode(b, fixPadding(chunks[1]))
ClaimsBytes(tok) == EncDecode(fixPadding(Split(tok)[2]))
\* json.Unmarshal(b, &claims), claims being the struct cl
TokenClaims(tok, cl) == Unmarshal(ClaimsBytes(tok).bytes, cl, ClaimsSchema)
\* json.Unmarshal(b, &lifetime)
TokenLifetime(tok) == Unmarshal(ClaimsBytes(tok).bytes, ZeroLifetime, LifetimeSchema)
\* enc.Decode(b, fixPadding(chunks[2]))
SignatureBytes(tok) == EncDecode(fixPadding(Split(tok)[3]))

\* The token has three segments, and its header and claims segments decode.
Decodes(tok) ==
    /\ Len(Split(tok)) = 3
    /\ ~HeaderBytes(tok).err
    /\ TokenHeader(tok).err = Nil
    /\ ~ClaimsBytes(tok).err
    /\ TokenClaims(tok, ZeroClaims).err = Nil
    /\ TokenLifetime(tok).err = Nil

\* The signature segment decodes and v.Verify accepts it for the signing input.
SignatureVerifies(tok, v) ==
    /\ ~SignatureBytes(tok).err
    /\ Verify(v, SignatureBytes(tok).bytes, BeforeSign(tok, Split(tok))) = Nil

\* The verifier states a key id: it has a KeyID method and the id is not empty.
StatesKeyID(v) == IsNamedKeyHolder(v) /\ KeyID(v) # NoKid

\* The verifier v holds the key material of the signer s, for s's algorithm.
SharesKey(s, v) ==
    /\ Algorithm(v) = Algorithm(s)
    /\ v.hash = s.hash
    /\ \/ v.kind = s.kind /\ v.key = s.key
       \/ s.kind = "rsaSigner" /\ v.kind = "rsaVerifier" /\ v.key = PublicKey(s.key)

\* exp and nbf of the claims c do not violate the time n.
TemporallyValid(c, n) ==
    /\ c.exp = 0 \/ c.exp >= n
    /\ c.nbf = 0 \/ c.nbf <= n

(***************************************************************************)
(* The properties.                                                         *)
(***************************************************************************)
\* C1: whenever DecodeClaims returns an error, the caller's claims struct is
\* exactly as it was before the call: nothing of the token's payload is in it.
C1_NoLeakOnFailure ==
    (op = "DecodeClaims" /\ err # Nil) => out = outPre

\* C2: DecodeClaims returns nil only if the token has exactly three segments,
\* its header and claims segments decode, the header's alg is the verifier's
\* algorithm, the key ids agree when both sides state one, verifier.Verify
\* was called on the decoded signature and the signing input and returned
\* nil, exp is unset or not before now, and nbf is unset or not after now;
\* every stage was run, none skipped.
C2_AcceptOnlyIfAllChecks ==
    (op = "DecodeClaims" /\ err = Nil) =>
        /\ Decodes(token)
        /\ TokenHeader(token).val.Algorithm = Algorithm(verifier)
        /\ (StatesKeyID(verifier) /\ TokenHeader(token).val.KeyID # NoKid)
              => KeyID(verifier) = TokenHeader(token).val.KeyID
        /\ SignatureVerifies(token, verifier)
        /\ run.verified = <<[signature |-> SignatureBytes(token).bytes,
                             data |-> BeforeSign(token, Split(token))]>>
        /\ TokenLifetime(token).val.ExpirationTime = 0
              \/ TokenLifetime(token).val.ExpirationTime >= now
        /\ TokenLifetime(token).val.NotBefore = 0
              \/ TokenLifetime(token).val.NotBefore <= now
        /\ run.stages = Stages

\* A token was accepted by an RSA verifier after its signature was verified.
C2_Witness ==
    /\ op = "DecodeClaims"
    /\ err = Nil
    /\ verifier.kind = "rsaVerifier"
    /\ Len(run.verified) = 1
    /\ claims.exp = T
    /\ out = claims

\* C3: for a token whose header and claims segments decode and whose header
\* alg is not the verifier's algorithm, DecodeClaims returns ErrInvalidSigner
\* and verifier.Verify is not called, also when the verifier is the 'none'
\* signer, whose Verify accepts any bytes.
C3_AlgorithmMismatchBeforeVerify ==
    (/\ op = "DecodeClaims"
     /\ Decodes(token)
     /\ TokenHeader(token).val.Algorithm # Algorithm(verifier))
        => /\ err = ErrInvalidSigner
           /\ run.verified = <<>>
           /\ run.stages = StagesTo(4)

\* A signed HS256 token was handed to the 'none' verifier and refused.
C3_Witness ==
    /\ op = "DecodeClaims"
    /\ verifier = noneSigner
    /\ signer = HMAC256(Secret1, Kid1)
    /\ tamper = "none"
    /\ TemporallyValid(claims, now)
    /\ err = ErrInvalidSigner
    /\ run.verified = <<>>

C5_KeyIDOnlyWhenBothState ==
    (/\ op = "DecodeClaims"
     /\ tamper = "none"
     /\ SharesKey(signer, verifier)
     /\ TemporallyValid(claims, now)
     /\ ~StatesKeyID(verifier) \/ TokenHeader(token).val.KeyID = NoKid)
        => err = Nil

\* C6: for a token that passes every check before the temporal one,
\* DecodeClaims returns ErrExpired exactly when exp is not zero and exp < now;
\* when it is not expired, ErrNotReady exactly when nbf is not zero and
\* nbf > now; and nil otherwise.
C6_TemporalBoundaries ==
    (/\ op = "DecodeClaims"
     /\ Decodes(token)
     /\ AlgorithmMatch(TokenHeader(token).val, verifier)
     /\ KeyIDMatch(TokenHeader(token).val, verifier)
     /\ SignatureVerifies(token, verifier))
        => /\ err = ErrExpired <=>
                 /\ TokenLifetime(token).val.ExpirationTime # 0
                 /\ TokenLifetime(token).val.ExpirationTime < now
           /\ err # ErrExpired =>
                 (err = ErrNotReady <=>
                     /\ TokenLifetime(token).val.NotBefore # 0
                     /\ TokenLifetime(token).val.NotBefore > now)
           /\ err \in {ErrExpired, ErrNotReady, Nil}

\* A token whose exp is the second before now was refused as expired, its
\* signature having been verified.
C6_Witness ==
    /\ op = "DecodeClaims"
    /\ tamper = "none"
    /\ claims.exp = now - 1
    /\ Len(run.verified) = 1
    /\ err = ErrExpired

\* C7: for a token that does not split on '.' into exactly three segments,
\* DecodeClaims returns ErrMalformedToken whatever the verifier; no segment
\* is decoded, the caller's struct is untouched and Verify is not called.
C7_MalformedToken ==
    (op = "DecodeClaims" /\ Len(Split(token)) # 3)
        => /\ err = ErrMalformedToken
           /\ run.stages = <<"Split">>
           /\ run.verified = <<>>
           /\ out = outPre

\* A token of four segments was refused.
C7_Witness ==
    /\ op = "DecodeClaims"
    /\ tamper = "extraSegment"
    /\ Len(Split(token)) = 4
    /\ err = ErrMalformedToken

C10_SignVerifySoundness ==
    /\ sop # "new" => sErr = Nil
    /\ sop = "Verify" =>
          /\ (SharesKey(sSigner, sVerifier) /\ vData = sData /\ vSig = sSig)
                => vErr = Nil
          /\ (vData # sData /\ vSig = sSig) => vErr = ErrInvalidSignature
          /\ (vData = sData /\ vSig # sSig) => vErr = ErrInvalidSignature
          /\ ~SharesKey(sSigner, sVerifier) => vErr = ErrInvalidSignature
          /\ vErr \in {Nil, ErrInvalidSignature}

\* An RS512 signature with one byte changed was refused by the verifier of
\* the signer's public key.
C10_Witness ==
    /\ sop = "Verify"
    /\ sSigner = RSA512Signer(Priv1, Kid1)
    /\ sVerifier = RSA512Verifier(PublicKey(Priv1))
    /\ vData = sData
    /\ Len(vSig) = Len(sSig)
    /\ vSig # sSig
    /\ vErr = ErrInvalidSignature

\* C11: the data DecodeClaims hands to verifier.Verify is the received token
\* without its last '.' and third segment, that is segment 0, '.', segment 1
\* byte for byte (the signature segment is not in it, and the decoded header
\* and claims are not written again); for a token as Encode returned it, it
\* is the very data Encode handed to signer.Sign.
C11_SigningInputByteExact ==
    (op = "DecodeClaims" /\ Len(run.verified) > 0) =>
        /\ run.verified[1].data = Split(token)[1] \o <<DotChar>> \o Split(token)[2]
        /\ run.verified[1].data \o <<DotChar>> \o Split(token)[3] = token
        /\ tamper = "none" => run.verified[1].data = Encode(signer, claims).signed
        /\ tamper = "reorderHeader" =>
              /\ run.verified[1].data # Encode(signer, claims).signed
              /\ TokenHeader(token).val.Algorithm = Algorithm(signer)

\* A token whose header was written again in another byte form reached
\* Verify with the bytes as received, not those Encode signed.
C11_Witness ==
    /\ op = "DecodeClaims"
    /\ tamper = "reorderHeader"
    /\ Len(run.verified) = 1
    /\ Len(Split(token)[3]) > 0
    /\ run.verified[1].data = BeforeSign(token, Split(token))
    /\ run.verified[1].data # Encode(signer, claims).signed

\* The members of the header JSON that is the first segment of tok.
HeaderMembers(tok) == ScanObject(HeaderBytes(tok).bytes).members

\* The values the header JSON of tok gives under the key k.
HeaderValues(tok, k) ==
    {HeaderMembers(tok)[i].val :
        i \in {j \in 1..Len(HeaderMembers(tok)) : HeaderMembers(tok)[j].key = k}}

\* C12: the header Encode writes has typ "JWT" and alg = signer.Algorithm();
\* it has a kid exactly when the signer has a key id and that id is not
\* empty, and the kid then is the signer's key id; for a signer without a
\* key id, or with an empty one, the header JSON has no kid at all.
C12_EncodedHeader ==
    (op = "Encode" /\ err = Nil) =>
        /\ ~HeaderBytes(token).err
        /\ ~ScanObject(HeaderBytes(token).bytes).err
        /\ HeaderValues(token, KeyTyp) = {TypJWT}
        /\ HeaderValues(token, KeyAlg) = {Algorithm(signer)}
        /\ HeaderValues(token, KeyKid) =
              IF StatesKeyID(signer) THEN {KeyID(signer)} ELSE {}
        /\ \A i \in 1..Len(HeaderMembers(token)) :
              /\ HeaderMembers(token)[i].key \in {KeyTyp, KeyAlg, KeyKid}
              /\ HeaderMembers(token)[i].kind = "string"
        /\ Len(HeaderMembers(token)) = IF StatesKeyID(signer) THEN 3 ELSE 2

\* An HMAC signer made with an empty keyID encoded a token: its header has
\* typ and alg and no kid.
C12_Witness ==
    /\ op = "Encode"
    /\ err = Nil
    /\ signer = HMAC256(Secret1, NoKid)
    /\ Len(HeaderMembers(token)) = 2
    /\ HeaderValues(token, KeyKid) = {}
    /\ HeaderValues(token, KeyAlg) = {HS256}

(***************************************************************************)
(* DecodeHeader on its own: two calls, each on a token of its own.         *)
(***************************************************************************)
\* {"typ":"JWT","alg":5}: alg is no string.
AlgNumberDoc ==
    <<LBraceChar>> \o MarshalMember(KeyTyp, "string", TypJWT)
    \o <<CommaChar>> \o MarshalMember(KeyAlg, "number", 5) \o <<RBraceChar>>

\* What follows the first segment: nothing, a dot, segments that decode to
\* nothing, more segments than three.
Tails == {<<>>, <<DotChar>>, <<DotChar, 33, DotChar, 33>>, <<DotChar, 65, DotChar, 65, DotChar, 65>>}

\* The tokens DecodeHeader is called on: the tokens Encode returns, altered
\* in every way, and headers that are not what the target expects.
HeaderTokens ==
    {Encode(sg, ForgedClaims).token : sg \in Signers}
    \cup {TamperToken(p[1], Encode(p[2], ForgedClaims).token) :
            p \in {q \in TamperKinds \X Signers :
                      q[1] = "flipSignature" => q[2] # noneSigner}}
    \cup {encode(d) \o t : d \in {AlgNumberDoc, NotJSON}, t \in Tails}

HdrInit ==
    /\ \E t \in HeaderTokens : hdrA = HeaderCall(t)
    /\ \E t \in HeaderTokens : hdrB = HeaderCall(t)
    /\ JwtIdle
    /\ B64Idle
    /\ SignIdle
    /\ KeyIdle
    /\ EncIdle

\* err := DecodeHeader(hdrA.token, &header)
DecodeHeaderA ==
    /\ ~hdrA.done
    /\ \E r \in {DecodeHeader(hdrA.token, hdrA.header)} :
          hdrA' = [token |-> hdrA.token, header |-> r.header, err |-> r.err, done |-> TRUE]
    /\ UNCHANGED hdrB
    /\ UNCHANGED <<jwtVars, b64Vars, signVars, keyVars, encVars>>

\* err := DecodeHeader(hdrB.token, &header)
DecodeHeaderB ==
    /\ ~hdrB.done
    /\ \E r \in {DecodeHeader(hdrB.token, hdrB.header)} :
          hdrB' = [token |-> hdrB.token, header |-> r.header, err |-> r.err, done |-> TRUE]
    /\ UNCHANGED hdrA
    /\ UNCHANGED <<jwtVars, b64Vars, signVars, keyVars, encVars>>

HdrNext == DecodeHeaderA \/ DecodeHeaderB

SpecHdr == HdrInit /\ [][HdrNext]_vars

\* The first segment of tok is base64url of a JSON document that fits the
\* header target.
HeaderSegmentValid(tok) ==
    /\ ~EncDecode(fixPadding(Split(tok)[1])).err
    /\ Unmarshal(EncDecode(fixPadding(Split(tok)[1])).bytes,
                 ZeroFullHeader, FullHeaderSchema).err = Nil

\* C13: DecodeHeader depends on the first '.'-separated segment only.  Two
\* calls on tokens with the same first segment, whatever follows it, return
\* the same error and leave the same header in the target; a call fails
\* exactly when the first segment is not base64url or not JSON that fits
\* the target, so neither three segments nor a valid signature are needed.
C13_DecodeHeaderFirstSegmentOnly ==
    /\ (/\ hdrA.done
        /\ hdrB.done
        /\ Split(hdrA.token)[1] = Split(hdrB.token)[1])
          => (hdrA.err = hdrB.err /\ hdrA.header = hdrB.header)
    /\ hdrA.done => (hdrA.err = Nil <=> HeaderSegmentValid(hdrA.token))
    /\ hdrB.done => (hdrB.err = Nil <=> HeaderSegmentValid(hdrB.token))

\* The header of a signed token of three segments and that of its first
\* segment alone were decoded, to the same header.
C13_Witness ==
    /\ hdrA.done
    /\ hdrB.done
    /\ Len(Split(hdrA.token)) = 3
    /\ Len(Split(hdrA.token)[3]) > 0
    /\ hdrB.token = Split(hdrA.token)[1]
    /\ hdrA.err = Nil
    /\ hdrB.err = Nil
    /\ hdrA.header = hdrB.header
    /\ hdrA.header.Algorithm = RS256
    /\ hdrA.header.KeyID = Kid1

(***************************************************************************)
(* The key of an HMAC signer in memory.  A byte slice is a reference to a  *)
(* backing array: kMem holds the arrays, the caller's key slice refers to  *)
(* "caller", and the signer's key field is a reference as well.            *)
(***************************************************************************)
\* key: key -- the field refers to the caller's array.
CopyKey_alias(mem, a) == [mem |-> mem, ref |-> a]

\* key: append([]byte{}, key...) -- a new array with the bytes of a.
CopyKey(mem, a) == [mem |-> [mem EXCEPT !["signer"] = mem[a]], ref |-> "signer"]

\* The constructors HMAC256 / HMAC384 / HMAC512 called with the slice at a:
\* mk is the constructor's result for a key, c the copy made of the key.
NewHMAC(mk, c) == [mem |-> c.mem, signer |-> [mk EXCEPT !.key = c.ref]]

\* The signer as its methods see it: s.key read through its reference.
Loaded(mem, sg) == [sg EXCEPT !.key = mem[sg.key]]

KeyValues == {Secret1, Secret2}
KeyData == {<<>>, <<65>>}

HMACConstructors ==
    {HMAC256(<<>>, Kid1), HMAC384(<<>>, Kid1), HMAC512(<<>>, Kid1), HMAC256(<<>>, NoKid)}

KeyInit ==
    /\ \E k \in KeyValues : kMem = [a \in Addrs |-> IF a = "caller" THEN k ELSE <<>>]
    /\ kSigner = noneSigner
    /\ kAtNew = [signer |-> noneSigner, key |-> <<>>]
    /\ kRes = NoCall
    /\ kop = "new"
    /\ JwtIdle
    /\ B64Idle
    /\ SignIdle
    /\ HdrIdle
    /\ EncIdle

\* signer := HMAC256(key, keyID), or HMAC384, or HMAC512
KNew ==
    /\ kop = "new"
    /\ \E mk \in HMACConstructors : \E r \in {NewHMAC(mk, CopyKey(kMem, "caller"))} :
          /\ kMem' = r.mem
          /\ kSigner' = r.signer
          /\ kAtNew' = [signer |-> r.signer, key |-> kMem["caller"]]
    /\ kop' = "New"
    /\ UNCHANGED kRes
    /\ UNCHANGED <<jwtVars, b64Vars, signVars, hdrVars, encVars>>

\* The caller writes other bytes into its key slice.
KMutate ==
    /\ kop # "new"
    /\ \E k \in KeyValues \ {kMem["caller"]} : kMem' = [kMem EXCEPT !["caller"] = k]
    /\ kop' = "Mutate"
    /\ UNCHANGED <<kSigner, kAtNew, kRes>>
    /\ UNCHANGED <<jwtVars, b64Vars, signVars, hdrVars, encVars>>

\* signer.Sign(d)
KSign ==
    /\ kop # "new"
    /\ \E d \in KeyData :
          kRes' = [call |-> "Sign", args |-> <<d>>, res |-> Sign(Loaded(kMem, kSigner), d)]
    /\ kop' = "Sign"
    /\ UNCHANGED <<kMem, kSigner, kAtNew>>
    /\ UNCHANGED <<jwtVars, b64Vars, signVars, hdrVars, encVars>>

\* signer.Verify(sg, d), sg a signature of d under one of the keys
KVerify ==
    /\ kop # "new"
    /\ \E d \in KeyData : \E k \in KeyValues :
          \E sg \in {HmacSum(kSigner.hash, k, d)} :
              kRes' = [call |-> "Verify", args |-> <<sg, d>>,
                       res |-> Verify(Loaded(kMem, kSigner), sg, d)]
    /\ kop' = "Verify"
    /\ UNCHANGED <<kMem, kSigner, kAtNew>>
    /\ UNCHANGED <<jwtVars, b64Vars, signVars, hdrVars, encVars>>

\* Encode(signer, &claims)
KEncode ==
    /\ kop # "new"
    /\ kRes' = [call |-> "Encode", args |-> <<ForgedClaims>>,
                res |-> Encode(Loaded(kMem, kSigner), ForgedClaims)]
    /\ kop' = "Encode"
    /\ UNCHANGED <<kMem, kSigner, kAtNew>>
    /\ UNCHANGED <<jwtVars, b64Vars, signVars, hdrVars, encVars>>

\* DecodeClaims(tok, signer, &out), tok a token signed under one of the keys
KDecodeClaims ==
    /\ kop # "new"
    /\ \E k \in KeyValues :
          \E tok \in {Encode([kSigner EXCEPT !.key = k], ForgedClaims).token} :
              kRes' = [call |-> "DecodeClaims", args |-> <<tok>>,
                       res |-> DecodeClaims(tok, Loaded(kMem, kSigner), Now0, ZeroClaims)]
    /\ kop' = "DecodeClaims"
    /\ UNCHANGED <<kMem, kSigner, kAtNew>>
    /\ UNCHANGED <<jwtVars, b64Vars, signVars, hdrVars, encVars>>

KeyNext == KNew \/ KMutate \/ KSign \/ KVerify \/ KEncode \/ KDecodeClaims

SpecKey == KeyInit /\ [][KeyNext]_vars

\* The signer with the key bytes it was constructed with.
AsConstructed == [kAtNew.signer EXCEPT !.key = kAtNew.key]

\* C14: the key of an HMAC signer is a copy made at construction, not the
\* caller's slice.  However the caller changes its key slice between the
\* calls, Sign, Verify, Encode and DecodeClaims give what they give for the
\* key bytes as they were at construction, and none of them changes the
\* signer's alg, key id or key.
C14_KeyCopiedAtConstruction ==
    kop # "new" =>
        /\ kSigner = kAtNew.signer
        /\ kSigner.key # "caller"
        /\ kMem[kSigner.key] = kAtNew.key
        /\ kRes.call = "Sign" => kRes.res = Sign(AsConstructed, kRes.args[1])
        /\ kRes.call = "Verify" =>
              kRes.res = Verify(AsConstructed, kRes.args[1], kRes.args[2])
        /\ kRes.call = "Encode" => kRes.res = Encode(AsConstructed, kRes.args[1])
        /\ kRes.call = "DecodeClaims" =>
              kRes.res = DecodeClaims(kRes.args[1], AsConstructed, Now0, ZeroClaims)

\* After the caller overwrote its key slice, the signer still accepted a
\* signature made under the key bytes of the construction.
C14_Witness ==
    /\ kop = "Verify"
    /\ kMem["caller"] # kAtNew.key
    /\ kRes.call = "Verify"
    /\ kRes.args[1] = HmacSum(kSigner.hash, kAtNew.key, kRes.args[2])
    /\ kRes.res = Nil

(***************************************************************************)
(* Encode on its own, with signers and claims that make it fail.           *)
(***************************************************************************)
\* Claims with a field of a func type.
FuncClaims == [color |-> Red, exp |-> 0, nbf |-> 0, fn |-> "func()"]

EncSigners ==
    Signers \cup SignSigners
    \cup {RSA256Signer(PrivSmall, Kid1), RSA384Signer(PrivSmall, Kid1),
          RSA512Signer(PrivSmall, Kid1)}

EncClaims == ClaimsValues \cup {ForgedClaims, FuncClaims}

EncInit ==
    /\ eSigner \in EncSigners
    /\ eClaims \in EncClaims
    /\ eRes = [token |-> <<>>, err |-> Nil]
    /\ eop = "new"
    /\ JwtIdle
    /\ B64Idle
    /\ SignIdle
    /\ HdrIdle
    /\ KeyIdle

\* token, err := Encode(eSigner, eClaims)
EDoEncode ==
    /\ eop = "new"
    /\ \E r \in {Encode(eSigner, eClaims)} : eRes' = [token |-> r.token, err |-> r.err]
    /\ eop' = "Encode"
    /\ UNCHANGED <<eSigner, eClaims>>
    /\ UNCHANGED <<jwtVars, b64Vars, signVars, hdrVars, keyVars>>

EncNext == EDoEncode

SpecEnc == EncInit /\ [][EncNext]_vars

\* errors.Is(e, target), also e == target: fmt.Errorf with %s makes an error
\* that unwraps to nothing, so only the error itself matches.
ErrorsIs(e, target) == e.id = target.id

\* What makes Encode(sg, c) fail: the error of json.Marshal(claims), or else
\* that of sig.Sign; Nil when neither fails.
EncodeCause(sg, c) ==
    IF MarshalClaims(c).err # Nil THEN MarshalClaims(c).err
    ELSE Sign(sg, encode(MarshalHeader(EncodeHeader(sg))) \o <<DotChar>>
                  \o encode(MarshalClaims(c).bytes)).err

\* The prefix Encode puts before the cause's message.
EncodeStage(c) ==
    IF MarshalClaims(c).err # Nil THEN "cannot encode claims" ELSE "cannot sign"

\* C15 (as claimed): when Encode fails it returns no token and an error that
\* names the failing stage and wraps the cause without losing it: the cause
\* (a signer's sentinel error, for one) is recoverable from the error.
C15_EncodeErrorWrapsCause ==
    (eop = "Encode" /\ eRes.err # Nil) =>
        /\ eRes.token = <<>>
        /\ Head(eRes.err.text) = EncodeStage(eClaims)
        /\ ErrorsIs(eRes.err, EncodeCause(eSigner, eClaims))

\* C15 (amended): Encode fails exactly when json.Marshal of the claims or
\* sig.Sign fails; it then returns no token, and a new error whose message
\* is the stage ("cannot encode claims" or "cannot sign", never the header's)
\* followed by the cause's message.  The cause's message is kept, its
\* identity is not: the error returned is not the cause.
C15_EncodeFailure ==
    eop = "Encode" =>
        /\ eRes.err # Nil <=> EncodeCause(eSigner, eClaims) # Nil
        /\ eRes.err = Nil => Len(Split(eRes.token)) = 3
        /\ eRes.err # Nil =>
              /\ eRes.token = <<>>
              /\ eRes.err.text =
                    <<EncodeStage(eClaims)>> \o EncodeCause(eSigner, eClaims).text
              /\ ~ErrorsIs(eRes.err, EncodeCause(eSigner, eClaims))

\* RS512 with a 512-bit key: Sign failed, and Encode returned no token and
\* "cannot sign" followed by the message of the cause.
C15_Witness ==
    /\ eop = "Encode"
    /\ eSigner = RSA512Signer(PrivSmall, Kid1)
    /\ eClaims \in ClaimsValues
    /\ eRes.token = <<>>
    /\ eRes.err.text = <<"cannot sign">> \o ErrMessageTooLong.text
    /\ eRes.err # ErrMessageTooLong

\* The first stage of DecodeClaims that fails for the token tok, the verifier
\* v and the time n, as a position in Stages; 9 (Accept) when none fails.
FailingStage(tok, v, n) ==
    IF Len(Split(tok)) # 3 THEN 1
    ELSE IF HeaderBytes(tok).err \/ TokenHeader(tok).err # Nil THEN 2
    ELSE IF \/ ClaimsBytes(tok).err
            \/ TokenClaims(tok, ZeroClaims).err # Nil
            \/ TokenLifetime(tok).err # Nil THEN 3
    ELSE IF TokenHeader(tok).val.Algorithm # Algorithm(v) THEN 4
    ELSE IF /\ IsNamedKeyHolder(v)
            /\ TokenHeader(tok).val.KeyID # NoKid
            /\ KeyID(v) # TokenHeader(tok).val.KeyID THEN 5
    ELSE IF SignatureBytes(tok).err THEN 6
    ELSE IF Verify(v, SignatureBytes(tok).bytes, BeforeSign(tok, Split(tok))) # Nil THEN 7
    ELSE IF ~TemporallyValid([exp |-> TokenLifetime(tok).val.ExpirationTime,
                              nbf |-> TokenLifetime(tok).val.NotBefore], n) THEN 8
    ELSE 9

\* C16: DecodeClaims runs Split, HeaderDecode, ClaimsDecode, AlgorithmMatch,
\* KeyIDMatch, SignatureDecode, SignatureVerify, TemporalCheck, Accept in
\* that order and stops at the first stage that fails, returning its error.
\* Verify is called at most once, only after the algorithm and the key id
\* matched, and its error is returned as it is; exp and nbf are checked only
\* after Verify returned nil, so an invalid signature on an expired token
\* gives the error of Verify, not ErrExpired.
C16_StageOrder ==
    op = "DecodeClaims" =>
        /\ run.stages = StagesTo(FailingStage(token, verifier, now))
        /\ Len(run.verified) <= 1
        /\ Len(run.verified) = 1 <=> FailingStage(token, verifier, now) >= 7
        /\ err = Nil <=> FailingStage(token, verifier, now) = 9
        /\ FailingStage(token, verifier, now) = 1 => err = ErrMalformedToken
        /\ FailingStage(token, verifier, now) \in {2, 3, 6} => err.id = "fmt.Errorf"
        /\ FailingStage(token, verifier, now) \in {4, 5} => err = ErrInvalidSigner
        /\ FailingStage(token, verifier, now) = 7 =>
              err = Verify(verifier, SignatureBytes(token).bytes,
                           BeforeSign(token, Split(token)))
        /\ FailingStage(token, verifier, now) = 8 => err \in {ErrExpired, ErrNotReady}

\* A token signed under another secret, its exp in the past, was refused
\* with ErrInvalidSignature at the SignatureVerify stage.
C16_Witness ==
    /\ op = "DecodeClaims"
    /\ tamper = "none"
    /\ signer = HMAC256(Secret1, Kid1)
    /\ verifier = HMAC256(Secret2, Kid1)
    /\ claims.exp # 0
    /\ claims.exp < now
    /\ err = ErrInvalidSignature
    /\ run.stages = StagesTo(7)
    /\ Len(run.verified) = 1

====
